---- MODULE Spec2Model ----
(***************************************************************************)
(* GameLauncher (src/core/game_launcher.py): the launch queue, its single  *)
(* background worker, the snapshot-diff process discovery and the          *)
(* login -> pid map, together with the operating system's process table    *)
(* and the window (src/ui/main_window.py) that owns the GameLauncher.      *)
(*                                                                         *)
(* Every GameLauncher has a worker thread, started by its constructor.     *)
(* The window's thread (the calling thread) makes every other call, always *)
(* on the GameLauncher that self.game_launcher refers to at that moment.   *)
(* Saving the settings makes a new GameLauncher and leaves the old one,    *)
(* with its worker, as it is; so the launcher's fields are kept per        *)
(* GameLauncher, numbered in the order of their construction.              *)
(* The environment starts and ends processes at any time: the batch file   *)
(* runs `start elementclient.exe` (src/core/batch_generator.py:32), so the *)
(* client shows up some time after Popen returned, possibly only after the *)
(* three seconds the launch waits.                                         *)
(***************************************************************************)
EXTENDS Integers, Sequences, FiniteSets, TLC

\* ---------------------------------------------------------------- bounds
MaxRequests == 2            \* queue_launch calls in one run

MaxLaunchers == 2           \* GameLaunchers created in one run

MaxDirect == 2              \* launch_account calls whose client is still to come up

\* ------------------------------------------------------ program constants
DefaultLaunchDelay == 3
MinLaunchDelay == 1
MaxLaunchDelay == 30

Logins == {"A", "B"}
PIDs == {1, 2}
NoPid == 0                  \* Python None: a key absent from the dict
Sentinel == 0               \* the None that shutdown() puts in the queue
Launchers == 1 .. MaxLaunchers
CbKinds == {"none", "ok", "raise"}
DelayInputs == {-2, 0, 7, 31}

\* execution contexts: the calling thread, and the worker thread of each
\* GameLauncher
Caller == << "c", 0 >>
Worker(g) == << "w", g >>
Workers == { Worker(g) : g \in Launchers }
Ctx == {Caller} \cup Workers
IsWorker(c) == c[1] = "w"
NoHolder == << "free", 0 >>             \* launch_lock is not held

\* who started a running process
ReqTag(id) == << "queued", id >>        \* a worker, for request id
DirectClient == << "direct", 0 >>       \* a launch_account call
ExtTag == << "external", 0 >>           \* a client started outside the tool
OtherTag == << "other", 0 >>            \* a process that is no game client

\* a launch whose shell was started and whose client is still to come up:
\* ReqTag(id) for a queued one; the launch_account calls in that state are
\* not told apart, there are DirectTag(1) .. DirectTag(n) for n of them
DirectTag(k) == << "direct", k >>
DirectTags == { DirectTag(k) : k \in 1 .. MaxDirect }

\* AccountManager.accounts as load_accounts read it from the accounts file
InitialAccounts == << "A", "B" >>

VARIABLES
    process_map,    \* self.process_map : login -> pid (NoPid = no entry)
    key_order,      \* self.process_map : its keys in the order the dict
                    \* holds them
    launch_queue,   \* self.launch_queue: request ids, Sentinel for None
    requests,       \* the tuples passed to queue_launch, by request id
    launch_delay,   \* self.launch_delay
    stop_launcher,  \* self.stop_launcher
    launch_lock,    \* self.launch_lock: NoHolder or the context holding it
    wpc,            \* position of the worker thread in _launch_worker
                    \* ("none": this GameLauncher is not constructed yet)
    wreq,           \* request the worker has dequeued (0: none yet)
    sleepLen,       \* argument of the time.sleep the worker is in
    att,            \* per context: locals of _launch_account_sync
    cpc,            \* position of the calling thread
    cop,            \* locals of the calling thread's current operation
    cres,           \* what the calling thread's operation returns
    alive,          \* pids of the running processes
    origin,         \* for a running pid: who started it
    pending,        \* launches whose Popen succeeded, client not yet up
    executed,       \* history: request ids in the order they were dequeued
    cbLog,          \* history: <<request id, pid>> of each callback call
    gapSlept,       \* history: the worker slept since its last launch ended
    window,         \* history: queued launches between their two snapshots
    closing,        \* MainWindow.closeEvent: how far it is, and the answer Yes
    game_launcher,  \* MainWindow.game_launcher: the number of the
                    \* GameLauncher the window refers to
    accounts        \* AccountManager.accounts: the logins, in list order

\* process_map .. sleepLen and gapSlept are functions of the
\* GameLauncher's number.
vars == << process_map, key_order, launch_queue, requests, launch_delay, stop_launcher,
           launch_lock, wpc, wreq, sleepLen, att, cpc, cop, cres, alive,
           origin, pending, executed, cbLog, gapSlept, window,
           closing, game_launcher, accounts >>

\* ---------------------------------------------------------------- helpers
EmptyMap == [l \in Logins |-> NoPid]
IdleAtt == [pc |-> "idle", login |-> "A", batch |-> FALSE, before |-> {},
            ret |-> NoPid, kind |-> "none", wrote |-> FALSE, prev |-> NoPid,
            tag |-> ExtTag]
IdleOp == [op |-> "none", login |-> "A", pid |-> NoPid, handle |-> FALSE,
           todo |-> << >>, dead |-> << >>, len |-> 0, map0 |-> EmptyMap,
           alive0 |-> {}, dirty |-> FALSE, second |-> FALSE,
           outer |-> "none", rest |-> << >>, list |-> << >>, count |-> 0,
           all0 |-> {}, tried |-> {}, okset |-> {}, stored |-> {}]
NoRes == [op |-> "none", val |-> "none"]
NotClosing == [phase |-> "no", yes |-> FALSE]

Keys(map) == { l \in Logins : map[l] # NoPid }

\* a dict keeps its keys in the order they were inserted: a key stays at
\* its place while it is in the dict, also when its value is replaced, and
\* a new key comes last
Reordered(order, map) ==
    LET kept == SelectSeq(order, LAMBDA l : l \in Keys(map))
        new == Keys(map) \ { order[i] : i \in 1 .. Len(order) }
    IN IF new = {} THEN kept ELSE Append(kept, CHOOSE l \in new : TRUE)

\* the GameLauncher whose code a context runs: a worker that of its own
\* launcher, the calling thread that of self.game_launcher
LauncherOf(c) == IF IsWorker(c) THEN c[2] ELSE game_launcher

\* 'elementclient' in name or 'asgrad' in name
NameMatches(tag) == tag # OtherTag

\* _get_running_processes: the pids of the running processes whose name matches
GetRunningProcesses(running, org) == { p \in running : NameMatches(org[p]) }

\* (variants for checking: the difference the wrong way round; no
\* difference taken; the whole snapshot when the difference is empty)
NewPidsSwapped(after, before) == before \ after
NewPidsAll(after, before) == after
NewPidsOrAll(after, before) ==
    IF after \ before = {} THEN after ELSE after \ before

\* (a variant for checking: every batch file is taken to exist)
PathExistsAlways(batch) == TRUE

\* os.path.exists(batch_file)
PathExists(batch) == batch

\* new_pids = after_pids - before_pids
NewPids(after, before) == after \ before

\* (variants for checking: the store is lost; an entry is never replaced)
RecordDropped(map, login, pid) == map
RecordIfAbsent(map, login, pid) ==
    IF map[login] = NoPid THEN [map EXCEPT ![login] = pid] ELSE map

\* self.process_map[login] = pid
Record(map, login, pid) == [map EXCEPT ![login] = pid]

\* (a variant for checking: the del is lost)
RemoveNothing(map, login) == map

\* del self.process_map[login]
Remove(map, login) == [map EXCEPT ![login] = NoPid]

\* (a variant for checking: the value is stored as given)
ClampDelayNone(delay) == delay

\* max(1, min(30, delay))
Min2(a, b) == IF a < b THEN a ELSE b
Max2(a, b) == IF a > b THEN a ELSE b
ClampDelay(delay) == Max2(MinLaunchDelay, Min2(MaxLaunchDelay, delay))

\* (a variant for checking: a last-in first-out queue)
QueueGetNewest(q) == q[Len(q)]

\* Queue.get returns the oldest item and removes it; Queue.empty
QueueGet(q) == Head(q)
QueueRest(q) == Tail(q)
QueueEmpty(q) == q = << >>

\* (a variant for checking: every pid is taken to be running)
IsRunningAlways(pid, running) == TRUE

\* psutil.Process(pid) succeeds: a process with that pid is running
IsRunning(pid, running) == pid \in running

\* (a variant for checking: every login is taken to be tracked)
IsTrackedAlways(pid) == TRUE

\* pid = self.process_map.get(login); `if not pid` is false
IsTracked(pid) == pid # NoPid

\* the launch a context is making, as the starter of its client
Tag(c) == att[c].tag

\* the number of launch_account calls whose client is still to come up
PendingDirect == Cardinality(pending \cap DirectTags)

\* what the Popen of a launch adds to the launches still to come up
PendTag(c) == IF IsWorker(c) THEN Tag(c) ELSE DirectTag(PendingDirect + 1)

\* bookkeeping: a change of the map or of the process table while the calling
\* thread is in, or has just returned from, cleanup_dead_processes
InCleanup == cop.op = "cleanup_dead_processes"
Touch(o) == IF o.op = "cleanup_dead_processes" THEN [o EXCEPT !.dirty = TRUE] ELSE o

\* bookkeeping: the logins for which a launch stored a pid while the calling
\* thread is in terminate_all
NoteStore(o, login) ==
    IF o.outer = "terminate_all" THEN [o EXCEPT !.stored = @ \cup {login}] ELSE o

\* the psutil.Process object the calling thread holds stands for the process
\* that had the pid when the object was made: once that process has exited
\* the object is not running, also when the pid is in use again
Lose(o, pid) == IF o.pid = pid THEN [o EXCEPT !.handle = FALSE] ELSE o

\* ------------------------------------------------------------------ Init
\* GameLauncher.__init__ of the first GameLauncher: empty map and queue,
\* delay 3, worker started.  (The fields of the GameLaunchers not yet
\* constructed have the values the constructor will give them.)
Init ==
    /\ process_map = [g \in Launchers |-> EmptyMap]
    /\ key_order = [g \in Launchers |-> << >>]
    /\ launch_queue = [g \in Launchers |-> << >>]
    /\ requests = << >>
    /\ launch_delay = [g \in Launchers |-> DefaultLaunchDelay]
    /\ stop_launcher = [g \in Launchers |-> FALSE]
    /\ launch_lock = [g \in Launchers |-> NoHolder]
    /\ wpc = [g \in Launchers |-> IF g = 1 THEN "loop" ELSE "none"]
    /\ wreq = [g \in Launchers |-> 0]
    /\ sleepLen = [g \in Launchers |-> 0]
    /\ att = [c \in Ctx |-> IdleAtt]
    /\ cpc = "idle"
    /\ cop = IdleOp
    /\ cres = NoRes
    /\ alive = {}
    /\ origin = [p \in PIDs |-> ExtTag]
    /\ pending = {}
    /\ executed = << >>
    /\ cbLog = << >>
    /\ gapSlept = [g \in Launchers |-> FALSE]
    /\ window = {}
    /\ closing = NotClosing
    /\ game_launcher = 1
    /\ accounts = InitialAccounts

\* ------------------------------------------------ _launch_account_sync
\* os.path.exists(batch_file), then before_pids = _get_running_processes().
\* The enumeration is outside the try block: when it raises (psutil gives
\* the name None for a process it may not query, and None has no lower())
\* the exception leaves the function.  ok: the enumeration succeeds.
L_Begin(c, ok) ==
    /\ att[c].pc = "start"
    /\ IF ~PathExists(att[c].batch)
         THEN /\ att' = [att EXCEPT ![c].pc = "done", ![c].ret = NoPid,
                                    ![c].kind = "TargetNotFound"]
              /\ UNCHANGED window
         ELSE IF ~ok
         THEN /\ att' = [att EXCEPT ![c].pc = "raised", ![c].ret = NoPid,
                                    ![c].kind = "SnapshotError"]
              /\ UNCHANGED window
         ELSE /\ att' = [att EXCEPT ![c].pc = "spawn",
                           ![c].before = GetRunningProcesses(alive, origin)]
              /\ window' = IF IsWorker(c) THEN window \cup {wreq[c[2]]}
                           ELSE window
    /\ UNCHANGED << process_map, launch_queue, requests, launch_delay,
                    stop_launcher, launch_lock, wpc, wreq, sleepLen, cpc,
                    cop, cres, alive, origin, pending, executed, cbLog,
                    gapSlept, closing, game_launcher, accounts, key_order >>

\* subprocess.Popen(batch_file, shell=True): raises (caught, the function
\* returns None) or starts the shell that will start the client.
L_Spawn(c, ok) ==
    /\ att[c].pc = "spawn"
    /\ IF ~ok
         THEN /\ att' = [att EXCEPT ![c].pc = "done", ![c].ret = NoPid,
                                    ![c].kind = "SpawnFailed"]
              /\ window' = IF IsWorker(c) THEN window \ {wreq[c[2]]}
                           ELSE window
              /\ UNCHANGED pending
         ELSE /\ att' = [att EXCEPT ![c].pc = "settle"]
              /\ pending' = pending \cup {PendTag(c)}
              /\ UNCHANGED window
    /\ UNCHANGED << process_map, launch_queue, requests, launch_delay,
                    stop_launcher, launch_lock, wpc, wreq, sleepLen, cpc,
                    cop, cres, alive, origin, executed, cbLog, gapSlept,
                    closing, game_launcher, accounts, key_order >>

\* time.sleep(3) is over: after_pids, new_pids, pid = next(iter(new_pids)).
\* Which element a set's iterator yields first is implementation-defined.
\* An exception of the second enumeration is caught: the function returns None.
L_Settle(c, ok) ==
    /\ att[c].pc = "settle"
    /\ IF ~ok
         THEN att' = [att EXCEPT ![c].pc = "done", ![c].ret = NoPid,
                                 ![c].kind = "SnapshotError"]
         ELSE LET new_pids == NewPids(GetRunningProcesses(alive, origin),
                                      att[c].before)
              IN IF new_pids = {}
                   THEN att' = [att EXCEPT ![c].pc = "done", ![c].ret = NoPid,
                                           ![c].kind = "ProcessNotDetected"]
                   ELSE \E pid \in new_pids :
                          att' = [att EXCEPT ![c].pc = "record", ![c].ret = pid]
    /\ window' = IF IsWorker(c) THEN window \ {wreq[c[2]]} ELSE window
    /\ UNCHANGED << process_map, launch_queue, requests, launch_delay,
                    stop_launcher, launch_lock, wpc, wreq, sleepLen, cpc,
                    cop, cres, alive, origin, pending, executed, cbLog,
                    gapSlept, closing, game_launcher, accounts, key_order >>

\* with self.launch_lock:   (acquire)
L_Lock(c) ==
    /\ att[c].pc = "record"
    /\ launch_lock[LauncherOf(c)] = NoHolder
    /\ launch_lock' = [launch_lock EXCEPT ![LauncherOf(c)] = c]
    /\ att' = [att EXCEPT ![c].pc = "locked"]
    /\ UNCHANGED << process_map, launch_queue, requests, launch_delay,
                    stop_launcher, wpc, wreq, sleepLen, cpc, cop, cres,
                    alive, origin, pending, executed, cbLog, gapSlept,
                    window, closing, game_launcher, accounts, key_order >>

\* self.process_map[login] = pid   (release);  return pid
L_Record(c) ==
    /\ att[c].pc = "locked"
    /\ process_map' = [process_map EXCEPT ![LauncherOf(c)] =
                          Record(@, att[c].login, att[c].ret)]
    /\ launch_lock' = [launch_lock EXCEPT ![LauncherOf(c)] = NoHolder]
    /\ att' = [att EXCEPT ![c].pc = "done", ![c].wrote = TRUE,
                           ![c].prev = process_map[LauncherOf(c)][att[c].login]]
    /\ cop' = IF LauncherOf(c) = game_launcher
                THEN NoteStore(Touch(cop), att[c].login) ELSE cop
    /\ key_order' = [g \in Launchers |->
                        Reordered(key_order[g], process_map'[g])]
    /\ UNCHANGED << launch_queue, requests, launch_delay, stop_launcher, wpc,
                    wreq, sleepLen, cpc, cres, alive, origin, pending,
                    executed, cbLog, gapSlept, window, closing,
                    game_launcher, accounts >>

\* ------------------------------------------------------- _launch_worker
\* (g: the GameLauncher whose worker takes the step)
\* while not self.stop_launcher:
W_Loop(g) ==
    /\ wpc[g] = "loop"
    /\ wpc' = [wpc EXCEPT ![g] = IF stop_launcher[g] THEN "exited" ELSE "get"]
    /\ UNCHANGED << process_map, launch_queue, requests, launch_delay,
                    stop_launcher, launch_lock, wreq, sleepLen, att, cpc,
                    cop, cres, alive, origin, pending, executed, cbLog,
                    gapSlept, window, closing, game_launcher, accounts,
                    key_order >>

\* launch_queue.get(timeout=1) on an empty queue: queue.Empty, continue
W_GetTimeout(g) ==
    /\ wpc[g] = "get"
    /\ QueueEmpty(launch_queue[g])
    /\ wpc' = [wpc EXCEPT ![g] = "loop"]
    /\ UNCHANGED << process_map, launch_queue, requests, launch_delay,
                    stop_launcher, launch_lock, wreq, sleepLen, att, cpc,
                    cop, cres, alive, origin, pending, executed, cbLog,
                    gapSlept, window, closing, game_launcher, accounts,
                    key_order >>

\* launch_queue.get returns an item: None breaks the loop, a request is
\* unpacked and _launch_account_sync(login, batch_file) is entered.
\* at: the positions of the worker from which it takes an item.
W_GetAt(g, at) ==
    /\ wpc[g] \in at
    /\ ~QueueEmpty(launch_queue[g])
    /\ LET item == QueueGet(launch_queue[g])
       IN /\ launch_queue' = [launch_queue EXCEPT ![g] = QueueRest(@)]
          /\ IF item = Sentinel
               THEN /\ wpc' = [wpc EXCEPT ![g] = "exited"]
                    /\ UNCHANGED << wreq, att, executed >>
               ELSE /\ wpc' = [wpc EXCEPT ![g] = "launch"]
                    /\ wreq' = [wreq EXCEPT ![g] = item]
                    /\ att' = [att EXCEPT ![Worker(g)] =
                                 [IdleAtt EXCEPT !.pc = "start",
                                     !.login = requests[item].login,
                                     !.batch = requests[item].batch,
                                     !.tag = ReqTag(item)]]
                    /\ executed' = Append(executed, item)
    /\ UNCHANGED << process_map, requests, launch_delay, stop_launcher,
                    launch_lock, sleepLen, cpc, cop, cres, alive, origin,
                    pending, cbLog, gapSlept, window, closing, game_launcher,
                    accounts, key_order >>

\* (a variant for checking: the next request is taken while the launch of
\* the current one is still under way)
W_GetEager(g) == W_GetAt(g, {"get", "launch"})

\* the worker takes an item only at the top of its loop
W_Get(g) == W_GetAt(g, {"get"})

\* _launch_account_sync returned pid: if callback: callback(login, pid).
\* A callback that raises sends the worker to `except: continue`.
W_Callback(g) ==
    /\ wpc[g] = "launch"
    /\ att[Worker(g)].pc = "done"
    /\ LET cb == requests[wreq[g]].cb
       IN /\ cbLog' = IF cb = "none" THEN cbLog
                      ELSE Append(cbLog, << wreq[g], att[Worker(g)].ret >>)
          /\ wpc' = [wpc EXCEPT ![g] = IF cb = "raise" THEN "loop" ELSE "check"]
    /\ att' = [att EXCEPT ![Worker(g)] = IdleAtt]
    /\ gapSlept' = [gapSlept EXCEPT ![g] = FALSE]
    /\ UNCHANGED << process_map, launch_queue, requests, launch_delay,
                    stop_launcher, launch_lock, wreq, sleepLen, cpc, cop,
                    cres, alive, origin, pending, executed, window, closing,
                    game_launcher, accounts, key_order >>

\* (a variant for checking: an exception ends the worker thread)
W_LaunchRaisedStops(g) ==
    /\ wpc[g] = "launch"
    /\ att[Worker(g)].pc = "raised"
    /\ wpc' = [wpc EXCEPT ![g] = "exited"]
    /\ att' = [att EXCEPT ![Worker(g)] = IdleAtt]
    /\ gapSlept' = [gapSlept EXCEPT ![g] = FALSE]
    /\ UNCHANGED << process_map, launch_queue, requests, launch_delay,
                    stop_launcher, launch_lock, wreq, sleepLen, cpc, cop,
                    cres, alive, origin, pending, executed, cbLog, window,
                    closing, game_launcher, accounts, key_order >>

\* _launch_account_sync raised: `except: continue`, no callback, no sleep
W_LaunchRaised(g) ==
    /\ wpc[g] = "launch"
    /\ att[Worker(g)].pc = "raised"
    /\ wpc' = [wpc EXCEPT ![g] = "loop"]
    /\ att' = [att EXCEPT ![Worker(g)] = IdleAtt]
    /\ gapSlept' = [gapSlept EXCEPT ![g] = FALSE]
    /\ UNCHANGED << process_map, launch_queue, requests, launch_delay,
                    stop_launcher, launch_lock, wreq, sleepLen, cpc, cop,
                    cres, alive, origin, pending, executed, cbLog, window,
                    closing, game_launcher, accounts, key_order >>

\* if not self.launch_queue.empty(): time.sleep(self.launch_delay)
W_Check(g) ==
    /\ wpc[g] = "check"
    /\ IF ~QueueEmpty(launch_queue[g])
         THEN /\ wpc' = [wpc EXCEPT ![g] = "sleep"]
              /\ sleepLen' = [sleepLen EXCEPT ![g] = launch_delay[g]]
         ELSE /\ wpc' = [wpc EXCEPT ![g] = "loop"]
              /\ UNCHANGED sleepLen
    /\ UNCHANGED << process_map, launch_queue, requests, launch_delay,
                    stop_launcher, launch_lock, wreq, att, cpc, cop, cres,
                    alive, origin, pending, executed, cbLog, gapSlept,
                    window, closing, game_launcher, accounts, key_order >>

\* time.sleep(self.launch_delay) returns
W_SleepEnd(g) ==
    /\ wpc[g] = "sleep"
    /\ wpc' = [wpc EXCEPT ![g] = "loop"]
    /\ sleepLen' = [sleepLen EXCEPT ![g] = 0]
    /\ gapSlept' = [gapSlept EXCEPT ![g] = TRUE]
    /\ UNCHANGED << process_map, launch_queue, requests, launch_delay,
                    stop_launcher, launch_lock, wreq, att, cpc, cop, cres,
                    alive, origin, pending, executed, cbLog, window, closing,
                    game_launcher, accounts, key_order >>

\* ------------------------------------------------- the calling thread
\* (every call is made on the GameLauncher self.game_launcher refers to)
\* queue_launch(login, batch_file, callback)
C_QueueLaunch(login, batch, cb) ==
    /\ cpc = "idle"
    /\ Len(requests) < MaxRequests
    /\ requests' = Append(requests, [login |-> login, batch |-> batch, cb |-> cb])
    /\ launch_queue' = [launch_queue EXCEPT ![game_launcher] =
                           Append(@, Len(requests) + 1)]
    /\ UNCHANGED << process_map, launch_delay, stop_launcher, launch_lock,
                    wpc, wreq, sleepLen, att, cpc, cop, cres, alive, origin,
                    pending, executed, cbLog, gapSlept, window, closing,
                    game_launcher, accounts, key_order >>

\* (a variant for checking: the new value also replaces the length of a
\* sleep in progress)
C_SetLaunchDelayRetro(delay) ==
    /\ cpc = "idle"
    /\ launch_delay' = [launch_delay EXCEPT ![game_launcher] = ClampDelay(delay)]
    /\ sleepLen' = [sleepLen EXCEPT ![game_launcher] =
                       IF wpc[game_launcher] = "sleep" THEN ClampDelay(delay)
                       ELSE @]
    /\ UNCHANGED << process_map, launch_queue, requests, stop_launcher,
                    launch_lock, wpc, wreq, att, cpc, cop, cres, alive,
                    origin, pending, executed, cbLog, gapSlept, window,
                    closing, game_launcher, accounts, key_order >>

\* set_launch_delay(delay)
C_SetLaunchDelay(delay) ==
    /\ cpc = "idle"
    /\ launch_delay' = [launch_delay EXCEPT ![game_launcher] = ClampDelay(delay)]
    /\ UNCHANGED << process_map, launch_queue, requests, stop_launcher,
                    launch_lock, wpc, wreq, sleepLen, att, cpc, cop, cres,
                    alive, origin, pending, executed, cbLog, gapSlept,
                    window, closing, game_launcher, accounts, key_order >>

\* launch_account(login, batch_file): enters _launch_account_sync
C_LaunchAccount(login, batch) ==
    /\ cpc = "idle"
    /\ PendingDirect < MaxDirect
    /\ cpc' = "launch"
    /\ cop' = [IdleOp EXCEPT !.op = "launch_account", !.login = login]
    /\ att' = [att EXCEPT ![Caller] = [IdleAtt EXCEPT !.pc = "start",
                                          !.login = login, !.batch = batch,
                                          !.tag = DirectClient]]
    /\ UNCHANGED << process_map, launch_queue, requests, launch_delay,
                    stop_launcher, launch_lock, wpc, wreq, sleepLen, cres,
                    alive, origin, pending, executed, cbLog, gapSlept,
                    window, closing, game_launcher, accounts, key_order >>

\* launch_account hands on what _launch_account_sync returned or raised
C_LaunchReturn ==
    /\ cpc = "launch"
    /\ att[Caller].pc \in {"done", "raised"}
    /\ cpc' = "idle"
    /\ cop' = IdleOp
    /\ att' = [att EXCEPT ![Caller] = IdleAtt]
    /\ UNCHANGED << process_map, launch_queue, requests, launch_delay,
                    stop_launcher, launch_lock, wpc, wreq, sleepLen, cres,
                    alive, origin, pending, executed, cbLog, gapSlept,
                    window, closing, game_launcher, accounts, key_order >>

\* the caller has the result of terminate_account, is_account_running,
\* terminate_all, cleanup_dead_processes or shutdown
C_Return ==
    /\ cpc = "return"
    /\ closing.phase = "no"
    /\ ~(cop.outer = "terminate_all" /\ cres.op = "terminate_account")
    /\ cop.outer # "delete_account"
    /\ cpc' = "idle"
    /\ cop' = IdleOp
    /\ cres' = NoRes
    /\ UNCHANGED << process_map, launch_queue, requests, launch_delay,
                    stop_launcher, launch_lock, wpc, wreq, sleepLen, att,
                    alive, origin, pending, executed, cbLog, gapSlept,
                    window, closing, game_launcher, accounts, key_order >>

\* terminate_account: pid = self.process_map.get(login); if not pid: return False
\* from: the locals the calling thread has when it enters terminate_account
T_Begin(login, from) ==
    /\ IF ~IsTracked(process_map[game_launcher][login])
         THEN /\ cpc' = "return"
              /\ cres' = [op |-> "terminate_account", val |-> "False"]
              /\ cop' = [from EXCEPT !.op = "terminate_account",
                             !.login = login, !.pid = NoPid]
         ELSE /\ cpc' = "term_signal"
              /\ cop' = [from EXCEPT !.op = "terminate_account",
                             !.login = login,
                             !.pid = process_map[game_launcher][login]]
              /\ cres' = NoRes
    /\ UNCHANGED << process_map, launch_queue, requests, launch_delay,
                    stop_launcher, launch_lock, wpc, wreq, sleepLen, att,
                    alive, origin, pending, executed, cbLog, gapSlept,
                    window, closing, game_launcher, accounts, key_order >>

\* terminate_account(login) called by the window
T_Lookup(login) ==
    /\ cpc = "idle"
    /\ T_Begin(login, IdleOp)

\* process = psutil.Process(pid); process.terminate()
\*   NoSuchProcess: the entry is dropped if still present, return True
\*   another exception (denied: AccessDenied): return False
T_Signal(denied) ==
    /\ cpc = "term_signal"
    /\ IF ~IsRunning(cop.pid, alive)
         THEN /\ process_map' = [process_map EXCEPT ![game_launcher] =
                     IF @[cop.login] # NoPid THEN Remove(@, cop.login) ELSE @]
              /\ cres' = [op |-> "terminate_account", val |-> "True"]
              /\ cpc' = "return"
              /\ UNCHANGED cop
         ELSE IF denied
         THEN /\ cres' = [op |-> "terminate_account", val |-> "False"]
              /\ cpc' = "return"
              /\ UNCHANGED << process_map, cop >>
         ELSE /\ cpc' = "term_wait"
              /\ cop' = [cop EXCEPT !.handle = TRUE]
              /\ UNCHANGED << process_map, cres >>
    /\ key_order' = [g \in Launchers |->
                        Reordered(key_order[g], process_map'[g])]
    /\ UNCHANGED << launch_queue, requests, launch_delay, stop_launcher,
                    launch_lock, wpc, wreq, sleepLen, att, alive, origin,
                    pending, executed, cbLog, gapSlept, window, closing,
                    game_launcher, accounts >>

\* process.wait(timeout=5) returns when the process has exited; on
\* TimeoutExpired process.kill().  The kill is not waited for: the process
\* may be gone at once (dies) or still be there.
\* denied: kill raises AccessDenied, terminate_account returns False.
T_Wait(dies, denied) ==
    /\ cpc = "term_wait"
    /\ IF ~cop.handle
         THEN /\ cpc' = "term_del"
              /\ UNCHANGED << alive, origin, cres >>
         ELSE IF denied
         THEN /\ cres' = [op |-> "terminate_account", val |-> "False"]
              /\ cpc' = "return"
              /\ UNCHANGED << alive, origin >>
         ELSE /\ cpc' = "term_del"
              /\ alive' = IF dies THEN alive \ {cop.pid} ELSE alive
              /\ origin' = IF dies THEN [origin EXCEPT ![cop.pid] = ExtTag]
                           ELSE origin
              /\ UNCHANGED cres
    /\ UNCHANGED << process_map, launch_queue, requests, launch_delay,
                    stop_launcher, launch_lock, wpc, wreq, sleepLen, att,
                    cop, pending, executed, cbLog, gapSlept, window, closing,
                    game_launcher, accounts, key_order >>

\* del self.process_map[login]; return True   (KeyError: return False)
T_Del ==
    /\ cpc = "term_del"
    /\ IF process_map[game_launcher][cop.login] = NoPid
         THEN /\ cres' = [op |-> "terminate_account", val |-> "False"]
              /\ UNCHANGED process_map
         ELSE /\ process_map' = [process_map EXCEPT ![game_launcher] =
                                     Remove(@, cop.login)]
              /\ cres' = [op |-> "terminate_account", val |-> "True"]
    /\ cpc' = "return"
    /\ key_order' = [g \in Launchers |->
                        Reordered(key_order[g], process_map'[g])]
    /\ UNCHANGED << launch_queue, requests, launch_delay, stop_launcher,
                    launch_lock, wpc, wreq, sleepLen, att, cop, alive,
                    origin, pending, executed, cbLog, gapSlept, window,
                    closing, game_launcher, accounts >>

\* terminate_all: count = 0; logins = list(self.process_map.keys())
TA_Start ==
    /\ cpc = "idle"
    /\ cpc' = "all_iter"
    /\ cop' = [IdleOp EXCEPT !.op = "terminate_all", !.outer = "terminate_all",
                   !.rest = key_order[game_launcher],
                   !.all0 = Keys(process_map[game_launcher])]
    /\ UNCHANGED << process_map, launch_queue, requests, launch_delay,
                    stop_launcher, launch_lock, wpc, wreq, sleepLen, att,
                    cres, alive, origin, pending, executed, cbLog, gapSlept,
                    window, closing, game_launcher, accounts, key_order >>

\* for login in logins: self.terminate_account(login) is entered
TA_Call ==
    /\ cpc = "all_iter"
    /\ cop.rest # << >>
    /\ T_Begin(Head(cop.rest), [cop EXCEPT !.rest = Tail(@),
                                           !.tried = @ \cup {Head(cop.rest)}])

\* (a variant for checking: every call is counted)
TA_CollectAlways ==
    /\ cpc = "return"
    /\ cop.outer = "terminate_all"
    /\ cres.op = "terminate_account"
    /\ cpc' = "all_iter"
    /\ cop' = [cop EXCEPT !.op = "terminate_all",
                   !.count = @ + 1,
                   !.okset = IF cres.val = "True" THEN @ \cup {cop.login} ELSE @]
    /\ cres' = NoRes
    /\ UNCHANGED << process_map, launch_queue, requests, launch_delay,
                    stop_launcher, launch_lock, wpc, wreq, sleepLen, att,
                    alive, origin, pending, executed, cbLog, gapSlept,
                    window, closing, game_launcher, accounts, key_order >>

\* if self.terminate_account(login): count += 1
TA_Collect ==
    /\ cpc = "return"
    /\ cop.outer = "terminate_all"
    /\ cres.op = "terminate_account"
    /\ cpc' = "all_iter"
    /\ cop' = [cop EXCEPT !.op = "terminate_all",
                   !.count = IF cres.val = "True" THEN @ + 1 ELSE @,
                   !.okset = IF cres.val = "True" THEN @ \cup {cop.login} ELSE @]
    /\ cres' = NoRes
    /\ UNCHANGED << process_map, launch_queue, requests, launch_delay,
                    stop_launcher, launch_lock, wpc, wreq, sleepLen, att,
                    alive, origin, pending, executed, cbLog, gapSlept,
                    window, closing, game_launcher, accounts, key_order >>

\* the loop is over: return count   (the number is cop.count)
TA_Done ==
    /\ cpc = "all_iter"
    /\ cop.rest = << >>
    /\ cpc' = "return"
    /\ cres' = [op |-> "terminate_all", val |-> "count"]
    /\ UNCHANGED << process_map, launch_queue, requests, launch_delay,
                    stop_launcher, launch_lock, wpc, wreq, sleepLen, att,
                    cop, alive, origin, pending, executed, cbLog, gapSlept,
                    window, closing, game_launcher, accounts, key_order >>

\* is_account_running: pid = self.process_map.get(login); if not pid: return False
\* from: the locals the calling thread has when it enters is_account_running
I_Begin(login, from) ==
    /\ IF ~IsTracked(process_map[game_launcher][login])
         THEN /\ cpc' = "return"
              /\ cres' = [op |-> "is_account_running", val |-> "False"]
              /\ cop' = [from EXCEPT !.op = "is_account_running",
                             !.login = login, !.pid = NoPid]
         ELSE /\ cpc' = "running_check"
              /\ cop' = [from EXCEPT !.op = "is_account_running",
                             !.login = login,
                             !.pid = process_map[game_launcher][login]]
              /\ cres' = NoRes
    /\ UNCHANGED << process_map, launch_queue, requests, launch_delay,
                    stop_launcher, launch_lock, wpc, wreq, sleepLen, att,
                    alive, origin, pending, executed, cbLog, gapSlept,
                    window, closing, game_launcher, accounts, key_order >>

\* is_account_running(login) called by the window
I_Lookup(login) ==
    /\ cpc = "idle"
    /\ I_Begin(login, IdleOp)

\* process = psutil.Process(pid).  NoSuchProcess: del the entry, return
\* False (the del raises KeyError when the entry is gone)
I_Process ==
    /\ cpc = "running_check"
    /\ IF IsRunning(cop.pid, alive)
         THEN /\ cpc' = "running_query"
              /\ cop' = [cop EXCEPT !.handle = TRUE]
              /\ UNCHANGED << process_map, cres >>
         ELSE /\ cpc' = "return"
              /\ UNCHANGED cop
              /\ IF process_map[game_launcher][cop.login] = NoPid
                   THEN /\ cres' = [op |-> "is_account_running", val |-> "raised"]
                        /\ UNCHANGED process_map
                   ELSE /\ process_map' = [process_map EXCEPT ![game_launcher] =
                                               Remove(@, cop.login)]
                        /\ cres' = [op |-> "is_account_running", val |-> "False"]
    /\ key_order' = [g \in Launchers |->
                        Reordered(key_order[g], process_map'[g])]
    /\ UNCHANGED << launch_queue, requests, launch_delay, stop_launcher,
                    launch_lock, wpc, wreq, sleepLen, att, alive, origin,
                    pending, executed, cbLog, gapSlept, window, closing,
                    game_launcher, accounts >>

\* return process.is_running(): False when the process has exited since
\* psutil.Process(pid) was made; the entry is kept
I_Check ==
    /\ cpc = "running_query"
    /\ cres' = [op |-> "is_account_running",
                val |-> IF cop.handle THEN "True" ELSE "False"]
    /\ cpc' = "return"
    /\ UNCHANGED << process_map, launch_queue, requests, launch_delay,
                    stop_launcher, launch_lock, wpc, wreq, sleepLen, att,
                    cop, alive, origin, pending, executed, cbLog, gapSlept,
                    window, closing, game_launcher, accounts, key_order >>

\* cleanup_dead_processes: dead_logins = []; iter(self.process_map.items());
\* todo: the keys the iterator has still to yield.
\* It is the slot of the window's cleanup_timer, which fires whenever an
\* event loop of the window's thread runs: when the thread is idle, right
\* after an earlier call of it returned, inside msg_box.exec() while
\* closeEvent waits for the answer to its question, and after closeEvent
\* has accepted the event, until the application ends (the timer is never
\* stopped).
CL_Start ==
    /\ \/ cpc = "idle"
       \/ cpc = "return" /\ InCleanup /\ cop.outer = "none"
       \/ cpc = "close_prompt"
       \/ cpc = "closed"
    /\ cpc' = "cleanup_iter"
    /\ cres' = NoRes
    /\ cop' = [IdleOp EXCEPT !.op = "cleanup_dead_processes",
                   !.todo = key_order[game_launcher],
                   !.len = Len(key_order[game_launcher]),
                   !.map0 = process_map[game_launcher], !.alive0 = alive,
                   !.second = (cpc = "return" /\ cres.val = "none"
                               /\ ~cop.dirty),
                   !.outer = IF cpc = "close_prompt" THEN "prompt"
                             ELSE IF cpc = "closed" THEN "closed" ELSE "none",
                   !.count = IF cpc = "close_prompt" THEN cop.count ELSE 0]
    /\ UNCHANGED << process_map, launch_queue, requests, launch_delay,
                    stop_launcher, launch_lock, wpc, wreq, sleepLen, att,
                    alive, origin, pending, executed, cbLog, gapSlept,
                    window, closing, game_launcher, accounts, key_order >>

\* for login, pid in self.process_map.items(): the iterator is asked for
\* the next item.  It raises RuntimeError when the dict's size differs from
\* the size at the start of the iteration; otherwise it yields the next key
\* with the pid stored for it at this moment, or the loop is over.
CL_Next ==
    /\ cpc = "cleanup_iter"
    /\ LET map == process_map[game_launcher]
       IN IF Cardinality(Keys(map)) # cop.len
            THEN /\ cres' = [op |-> "cleanup_dead_processes", val |-> "raised"]
                 /\ cpc' = "return"
                 /\ UNCHANGED cop
            ELSE IF cop.todo = << >>
            THEN /\ cpc' = "cleanup_del"
                 /\ UNCHANGED << cres, cop >>
            ELSE /\ cpc' = "cleanup_exam"
                 /\ cop' = [cop EXCEPT !.todo = Tail(@),
                                !.login = Head(cop.todo),
                                !.pid = map[Head(cop.todo)]]
                 /\ UNCHANGED cres
    /\ UNCHANGED << process_map, launch_queue, requests, launch_delay,
                    stop_launcher, launch_lock, wpc, wreq, sleepLen, att,
                    alive, origin, pending, executed, cbLog, gapSlept,
                    window, closing, game_launcher, accounts, key_order >>

\* the body of the loop for the item taken: psutil.Process(pid) and
\* process.is_running() with the pid that was taken; the login goes to
\* dead_logins when that process is not running
CL_Examine ==
    /\ cpc = "cleanup_exam"
    /\ cpc' = "cleanup_iter"
    /\ cop' = [cop EXCEPT !.dead = IF IsRunning(cop.pid, alive)
                                     THEN @ ELSE Append(@, cop.login)]
    /\ UNCHANGED << process_map, launch_queue, requests, launch_delay,
                    stop_launcher, launch_lock, wpc, wreq, sleepLen, att,
                    cres, alive, origin, pending, executed, cbLog, gapSlept,
                    window, closing, game_launcher, accounts, key_order >>

\* for login in dead_logins: del self.process_map[login], one login in a
\* step (KeyError when the entry is gone); the function returns when the
\* list is through
CL_Del ==
    /\ cpc = "cleanup_del"
    /\ IF cop.dead = << >>
         THEN /\ cres' = [op |-> "cleanup_dead_processes", val |-> "none"]
              /\ cpc' = "return"
              /\ UNCHANGED << process_map, cop >>
         ELSE IF process_map[game_launcher][Head(cop.dead)] = NoPid
         THEN /\ cres' = [op |-> "cleanup_dead_processes", val |-> "raised"]
              /\ cpc' = "return"
              /\ UNCHANGED << process_map, cop >>
         ELSE /\ process_map' = [process_map EXCEPT ![game_launcher] =
                                     Remove(@, Head(cop.dead))]
              /\ cop' = [cop EXCEPT !.dead = Tail(@)]
              /\ UNCHANGED << cres, cpc >>
    /\ key_order' = [g \in Launchers |->
                        Reordered(key_order[g], process_map'[g])]
    /\ UNCHANGED << launch_queue, requests, launch_delay, stop_launcher,
                    launch_lock, wpc, wreq, sleepLen, att, alive, origin,
                    pending, executed, cbLog, gapSlept, window, closing,
                    game_launcher, accounts >>

\* shutdown(): self.stop_launcher = True
S_Stop ==
    /\ cpc = "idle"
    /\ ~stop_launcher[game_launcher]
    /\ stop_launcher' = [stop_launcher EXCEPT ![game_launcher] = TRUE]
    /\ cpc' = "shutdown_put"
    /\ cop' = [IdleOp EXCEPT !.op = "shutdown"]
    /\ UNCHANGED << process_map, launch_queue, requests, launch_delay,
                    launch_lock, wpc, wreq, sleepLen, att, cres, alive,
                    origin, pending, executed, cbLog, gapSlept, window,
                    closing, game_launcher, accounts, key_order >>

\* (a variant for checking: shutdown also forgets the tracked processes)
S_PutAndClear ==
    /\ cpc = "shutdown_put"
    /\ launch_queue' = [launch_queue EXCEPT ![game_launcher] =
                           Append(@, Sentinel)]
    /\ process_map' = [process_map EXCEPT ![game_launcher] = EmptyMap]
    /\ cpc' = "shutdown_join"
    /\ key_order' = [g \in Launchers |->
                        Reordered(key_order[g], process_map'[g])]
    /\ UNCHANGED << requests, launch_delay, stop_launcher, launch_lock, wpc,
                    wreq, sleepLen, att, cop, cres, alive, origin, pending,
                    executed, cbLog, gapSlept, window, closing,
                    game_launcher, accounts >>

\* self.launch_queue.put(None)
S_Put ==
    /\ cpc = "shutdown_put"
    /\ launch_queue' = [launch_queue EXCEPT ![game_launcher] =
                           Append(@, Sentinel)]
    /\ cpc' = "shutdown_join"
    /\ UNCHANGED << process_map, requests, launch_delay, stop_launcher,
                    launch_lock, wpc, wreq, sleepLen, att, cop, cres, alive,
                    origin, pending, executed, cbLog, gapSlept, window,
                    closing, game_launcher, accounts, key_order >>

\* (a variant for checking: join() without a timeout)
S_JoinUnbounded ==
    /\ cpc = "shutdown_join"
    /\ wpc[game_launcher] = "exited"
    /\ cpc' = "return"
    /\ cres' = [op |-> "shutdown", val |-> "joined"]
    /\ UNCHANGED << process_map, launch_queue, requests, launch_delay,
                    stop_launcher, launch_lock, wpc, wreq, sleepLen, att,
                    cop, alive, origin, pending, executed, cbLog, gapSlept,
                    window, closing, game_launcher, accounts, key_order >>

\* self.launch_thread.join(timeout=5): returns when the worker has exited
\* or when the five seconds are over
S_Join ==
    /\ cpc = "shutdown_join"
    /\ cpc' = "return"
    /\ cres' = [op |-> "shutdown",
                val |-> IF wpc[game_launcher] = "exited" THEN "joined"
                        ELSE "timeout"]
    /\ UNCHANGED << process_map, launch_queue, requests, launch_delay,
                    stop_launcher, launch_lock, wpc, wreq, sleepLen, att,
                    cop, alive, origin, pending, executed, cbLog, gapSlept,
                    window, closing, game_launcher, accounts, key_order >>

\* ---------------------------------------------------- AccountManager
\* add_account(account): refused when the login is in the list already
AM_AddAccount(login) ==
    /\ cpc = "idle"
    /\ \A i \in 1 .. Len(accounts) : accounts[i] # login
    /\ accounts' = Append(accounts, login)
    /\ UNCHANGED << process_map, launch_queue, requests, launch_delay,
                    stop_launcher, launch_lock, wpc, wreq, sleepLen, att,
                    cpc, cop, cres, alive, origin, pending, executed, cbLog,
                    gapSlept, window, closing, game_launcher, key_order >>

\* for i, acc in enumerate(self.accounts): if acc.login == login: the place
\* of the first account with that login.  (The list read from the accounts
\* file can hold a login more than once; add_account and update_account
\* never make it so.)
FirstWith(login) ==
    CHOOSE i \in 1 .. Len(accounts) :
       /\ accounts[i] = login
       /\ \A j \in 1 .. i - 1 : accounts[j] # login

\* delete_account(login): del self.accounts[i] for the first account with
\* that login (return True); the list as it is when there is none (return
\* False).  The value is the list afterwards.
AM_DeleteAccount(login) ==
    IF \A i \in 1 .. Len(accounts) : accounts[i] # login
      THEN accounts
      ELSE LET i == FirstWith(login)
           IN SubSeq(accounts, 1, i - 1) \o
                 SubSeq(accounts, i + 1, Len(accounts))

\* MainWindow.delete_account(row) for the row of an account, the deletion
\* confirmed: is_account_running(account.login) is entered.  (The
\* confirmation dialog comes before any use of the launcher: a slot of the
\* cleanup timer that runs inside it is a cleanup before this step.)
MW_DeleteAccount(login) ==
    /\ cpc = "idle"
    /\ \E i \in 1 .. Len(accounts) : accounts[i] = login
    /\ I_Begin(login, [IdleOp EXCEPT !.outer = "delete_account"])

\* is_account_running returned True: terminate_account(account.login) is
\* entered
MW_DeleteTerminate ==
    /\ cpc = "return"
    /\ cop.outer = "delete_account"
    /\ cres = [op |-> "is_account_running", val |-> "True"]
    /\ T_Begin(cop.login, [IdleOp EXCEPT !.outer = "delete_account"])

\* is_account_running returned False, or terminate_account has returned
\* (what it returned is not looked at): account_manager.delete_account(
\* account.login), and delete_account returns.  An exception raised by
\* is_account_running leaves delete_account with the account in place.
MW_DeleteDone ==
    /\ cpc = "return"
    /\ cop.outer = "delete_account"
    /\ cres # [op |-> "is_account_running", val |-> "True"]
    /\ accounts' = IF cres.val = "raised" THEN accounts
                   ELSE AM_DeleteAccount(cop.login)
    /\ cpc' = "idle"
    /\ cop' = IdleOp
    /\ cres' = NoRes
    /\ UNCHANGED << process_map, launch_queue, requests, launch_delay,
                    stop_launcher, launch_lock, wpc, wreq, sleepLen, att,
                    alive, origin, pending, executed, cbLog, gapSlept,
                    window, closing, game_launcher, key_order >>

\* update_account(old_login, account): the first account with old_login is
\* replaced where it stands; refused when the new login is another
\* account's.  (With the same login the list of logins stays as it is.)
AM_UpdateAccount(old, new) ==
    /\ cpc = "idle"
    /\ old # new
    /\ \E i \in 1 .. Len(accounts) : accounts[i] = old
    /\ \A i \in 1 .. Len(accounts) : accounts[i] # new
    /\ accounts' = [accounts EXCEPT ![FirstWith(old)] = new]
    /\ UNCHANGED << process_map, launch_queue, requests, launch_delay,
                    stop_launcher, launch_lock, wpc, wreq, sleepLen, att,
                    cpc, cop, cres, alive, origin, pending, executed, cbLog,
                    gapSlept, window, closing, game_launcher, key_order >>

\* ----------------------------------------- MainWindow.open_settings
\* The dialog was accepted (it is only with a valid game folder), so
\* init_game_components runs: self.game_launcher = GameLauncher(game_folder)
\* and set_launch_delay(saved delay) on it.  The GameLauncher that was
\* there before is not shut down or read: its worker, queue and map stay as
\* they are.  The new one starts with an empty map and queue and a worker
\* of its own.
OS_Accept(delay) ==
    /\ cpc = "idle"
    /\ game_launcher < MaxLaunchers
    /\ game_launcher' = game_launcher + 1
    /\ wpc' = [wpc EXCEPT ![game_launcher + 1] = "loop"]
    /\ launch_delay' = [launch_delay EXCEPT ![game_launcher + 1] =
                           ClampDelay(delay)]
    /\ UNCHANGED << process_map, launch_queue, requests, stop_launcher,
                    launch_lock, wreq, sleepLen, att, cpc, cop, cres, alive,
                    origin, pending, executed, cbLog, gapSlept, window,
                    closing, accounts, key_order >>

\* ------------------------------------------- MainWindow.closeEvent
\* running = sum(1 for acc in self.account_manager.get_all_accounts()
\*               if self.game_launcher.is_account_running(acc.login)):
\* the generator is made over the account list
CE_Start ==
    /\ cpc = "idle"
    /\ cpc' = "close_iter"
    /\ cop' = [IdleOp EXCEPT !.op = "closeEvent", !.outer = "closeEvent",
                   !.list = accounts]
    /\ closing' = [phase |-> "count", yes |-> FALSE]
    /\ UNCHANGED << process_map, launch_queue, requests, launch_delay,
                    stop_launcher, launch_lock, wpc, wreq, sleepLen, att,
                    cres, alive, origin, pending, executed, cbLog, gapSlept,
                    window, game_launcher, accounts, key_order >>

\* the next account of the list: is_account_running(acc.login) is entered
CE_Call ==
    /\ cpc = "close_iter"
    /\ cop.list # << >>
    /\ I_Begin(Head(cop.list), [cop EXCEPT !.list = Tail(@)])

\* is_account_running returned: the account is counted when it is True.
\* (A KeyError would leave closeEvent; is_account_running raises none here,
\* since only the calling thread deletes entries.)
CE_Collect ==
    /\ cpc = "return"
    /\ cop.outer = "closeEvent"
    /\ cres.op = "is_account_running"
    /\ cres.val \in {"True", "False"}
    /\ cpc' = "close_iter"
    /\ cop' = [cop EXCEPT !.op = "closeEvent",
                   !.count = IF cres.val = "True" THEN @ + 1 ELSE @]
    /\ cres' = NoRes
    /\ UNCHANGED << process_map, launch_queue, requests, launch_delay,
                    stop_launcher, launch_lock, wpc, wreq, sleepLen, att,
                    alive, origin, pending, executed, cbLog, gapSlept,
                    window, closing, game_launcher, accounts, key_order >>

\* the list is through.  With running > 0 the question is put (msg_box.exec());
\* otherwise shutdown() is entered: self.stop_launcher = True
CE_Counted ==
    /\ cpc = "close_iter"
    /\ cop.list = << >>
    /\ IF cop.count > 0
         THEN /\ cpc' = "close_prompt"
              /\ cop' = [IdleOp EXCEPT !.op = "closeEvent", !.count = cop.count]
              /\ closing' = [phase |-> "prompt", yes |-> FALSE]
              /\ UNCHANGED stop_launcher
         ELSE /\ cpc' = "shutdown_put"
              /\ cop' = [IdleOp EXCEPT !.op = "shutdown"]
              /\ closing' = [phase |-> "shutdown", yes |-> FALSE]
              /\ stop_launcher' = [stop_launcher EXCEPT ![game_launcher] = TRUE]
    /\ UNCHANGED << process_map, launch_queue, requests, launch_delay,
                    launch_lock, wpc, wreq, sleepLen, att, cres, alive,
                    origin, pending, executed, cbLog, gapSlept, window,
                    game_launcher, accounts, key_order >>

\* the slot of cleanup_timer that ran inside msg_box.exec() has returned or
\* raised: exec() goes on waiting for the answer
CE_Resume ==
    /\ cpc = "return"
    /\ cop.outer = "prompt"
    /\ cpc' = "close_prompt"
    /\ cop' = [IdleOp EXCEPT !.op = "closeEvent", !.count = cop.count]
    /\ cres' = NoRes
    /\ UNCHANGED << process_map, launch_queue, requests, launch_delay,
                    stop_launcher, launch_lock, wpc, wreq, sleepLen, att,
                    alive, origin, pending, executed, cbLog, gapSlept,
                    window, closing, game_launcher, accounts, key_order >>

\* reply = msg_box.exec(): Cancel ignores the event; Yes enters
\* terminate_all(); No goes on to shutdown()
CE_Reply(reply) ==
    /\ cpc = "close_prompt"
    /\ IF reply = "Cancel"
         THEN /\ cpc' = "idle"
              /\ cop' = IdleOp
              /\ closing' = NotClosing
              /\ UNCHANGED stop_launcher
         ELSE IF reply = "Yes"
         THEN /\ cpc' = "all_iter"
              /\ cop' = [IdleOp EXCEPT !.op = "terminate_all",
                             !.outer = "terminate_all",
                             !.rest = key_order[game_launcher],
                             !.all0 = Keys(process_map[game_launcher])]
              /\ closing' = [phase |-> "terminate_all", yes |-> TRUE]
              /\ UNCHANGED stop_launcher
         ELSE /\ cpc' = "shutdown_put"
              /\ cop' = [IdleOp EXCEPT !.op = "shutdown"]
              /\ closing' = [phase |-> "shutdown", yes |-> FALSE]
              /\ stop_launcher' = [stop_launcher EXCEPT ![game_launcher] = TRUE]
    /\ UNCHANGED << process_map, launch_queue, requests, launch_delay,
                    launch_lock, wpc, wreq, sleepLen, att, cres, alive,
                    origin, pending, executed, cbLog, gapSlept, window,
                    game_launcher, accounts, key_order >>

\* terminate_all() has returned: self.game_launcher.shutdown() is entered
CE_Shutdown ==
    /\ cpc = "return"
    /\ cres.op = "terminate_all"
    /\ closing.phase = "terminate_all"
    /\ cpc' = "shutdown_put"
    /\ cop' = [IdleOp EXCEPT !.op = "shutdown"]
    /\ cres' = NoRes
    /\ closing' = [closing EXCEPT !.phase = "shutdown"]
    /\ stop_launcher' = [stop_launcher EXCEPT ![game_launcher] = TRUE]
    /\ UNCHANGED << process_map, launch_queue, requests, launch_delay,
                    launch_lock, wpc, wreq, sleepLen, att, alive, origin,
                    pending, executed, cbLog, gapSlept, window,
                    game_launcher, accounts, key_order >>

\* shutdown() has returned: event.accept(), and closeEvent returns to the
\* event loop.  The worker threads run on.
CE_Accept ==
    /\ cpc = "return"
    /\ cres.op = "shutdown"
    /\ closing.phase = "shutdown"
    /\ cpc' = "closed"
    /\ cop' = IdleOp
    /\ cres' = NoRes
    /\ closing' = [closing EXCEPT !.phase = "accepted"]
    /\ UNCHANGED << process_map, launch_queue, requests, launch_delay,
                    stop_launcher, launch_lock, wpc, wreq, sleepLen, att,
                    alive, origin, pending, executed, cbLog, gapSlept,
                    window, game_launcher, accounts, key_order >>

\* the slot of cleanup_timer that ran after closeEvent had returned has
\* returned or raised: the event loop goes on
MN_Resume ==
    /\ cpc = "return"
    /\ cop.outer = "closed"
    /\ cpc' = "closed"
    /\ cop' = IdleOp
    /\ cres' = NoRes
    /\ UNCHANGED << process_map, launch_queue, requests, launch_delay,
                    stop_launcher, launch_lock, wpc, wreq, sleepLen, att,
                    alive, origin, pending, executed, cbLog, gapSlept,
                    window, closing, game_launcher, accounts, key_order >>

\* main: sys.exit(app.exec()).  The window is closed, app.exec() returns
\* and the process ends; its daemon worker threads end with it, wherever
\* they are.
MN_Exit ==
    /\ cpc = "closed"
    /\ cpc' = "exited"
    /\ closing' = [closing EXCEPT !.phase = "exited"]
    /\ wpc' = [g \in Launchers |-> IF wpc[g] = "none" THEN "none" ELSE "exited"]
    /\ att' = [c \in Ctx |-> IdleAtt]
    /\ UNCHANGED << process_map, launch_queue, requests, launch_delay,
                    stop_launcher, launch_lock, wreq, sleepLen, cop, cres,
                    alive, origin, pending, executed, cbLog, gapSlept,
                    window, game_launcher, accounts, key_order >>

\* ------------------------------------------------------ the environment
\* the client started by a launched batch file shows up in the process
\* table; when it is the client of a launch_account call there is one less
\* of these to come
E_SpawnAppear(tag, pid) ==
    /\ tag \in pending
    /\ tag \in DirectTags => tag = DirectTag(PendingDirect)
    /\ pid \notin alive
    /\ pending' = pending \ {tag}
    /\ alive' = alive \cup {pid}
    /\ origin' = [origin EXCEPT ![pid] =
                      IF tag \in DirectTags THEN DirectClient ELSE tag]
    /\ cop' = Touch(cop)
    /\ UNCHANGED << process_map, launch_queue, requests, launch_delay,
                    stop_launcher, launch_lock, wpc, wreq, sleepLen, att,
                    cpc, cres, executed, cbLog, gapSlept, window, closing,
                    game_launcher, accounts, key_order >>

\* a process is started outside the tool: a game client or something else
E_ExtStart(pid, tag) ==
    /\ pid \notin alive
    /\ alive' = alive \cup {pid}
    /\ origin' = [origin EXCEPT ![pid] = tag]
    /\ cop' = Touch(cop)
    /\ UNCHANGED << process_map, launch_queue, requests, launch_delay,
                    stop_launcher, launch_lock, wpc, wreq, sleepLen, att,
                    cpc, cres, pending, executed, cbLog, gapSlept, window,
                    closing, game_launcher, accounts, key_order >>

\* a process exits: closed by the user, crashed, or ended by a signal
E_Exit(pid) ==
    /\ pid \in alive
    /\ alive' = alive \ {pid}
    /\ origin' = [origin EXCEPT ![pid] = ExtTag]
    /\ cop' = Lose(Touch(cop), pid)
    /\ UNCHANGED << process_map, launch_queue, requests, launch_delay,
                    stop_launcher, launch_lock, wpc, wreq, sleepLen, att,
                    cpc, cres, pending, executed, cbLog, gapSlept, window,
                    closing, game_launcher, accounts, key_order >>

\* ------------------------------------------------------------------ Next
\* a step of the worker thread of GameLauncher g
WorkerStep(g) ==
    \/ \E ok \in BOOLEAN : L_Begin(Worker(g), ok)
    \/ \E ok \in BOOLEAN : L_Spawn(Worker(g), ok)
    \/ \E ok \in BOOLEAN : L_Settle(Worker(g), ok)
    \/ L_Lock(Worker(g))
    \/ L_Record(Worker(g))
    \/ W_Loop(g)
    \/ W_GetTimeout(g)
    \/ W_Get(g)
    \/ W_Callback(g)
    \/ W_LaunchRaised(g)
    \/ W_Check(g)
    \/ W_SleepEnd(g)

\* a step of a worker whose enumerations and Popen succeed
WorkerOkStep(g) ==
    \/ L_Begin(Worker(g), TRUE)
    \/ L_Spawn(Worker(g), TRUE)
    \/ L_Settle(Worker(g), TRUE)
    \/ L_Lock(Worker(g))
    \/ L_Record(Worker(g))
    \/ W_Loop(g)
    \/ W_GetTimeout(g)
    \/ W_Get(g)
    \/ W_Callback(g)
    \/ W_Check(g)
    \/ W_SleepEnd(g)

\* Every operation of the launchers, in all threads, of the account list
\* and of the window, and the environment.
Next ==
    \/ \E g \in Launchers : WorkerStep(g)
    \/ \E ok \in BOOLEAN : L_Begin(Caller, ok)
    \/ \E ok \in BOOLEAN : L_Spawn(Caller, ok)
    \/ \E ok \in BOOLEAN : L_Settle(Caller, ok)
    \/ L_Lock(Caller)
    \/ L_Record(Caller)
    \/ \E l \in Logins, b \in BOOLEAN, cb \in CbKinds : C_QueueLaunch(l, b, cb)
    \/ \E d \in DelayInputs : C_SetLaunchDelay(d)
    \/ \E l \in Logins, b \in BOOLEAN : C_LaunchAccount(l, b)
    \/ C_LaunchReturn
    \/ C_Return
    \/ \E l \in Logins : T_Lookup(l)
    \/ \E d \in BOOLEAN : T_Signal(d)
    \/ \E k, d \in BOOLEAN : T_Wait(k, d)
    \/ T_Del
    \/ TA_Start
    \/ TA_Call
    \/ TA_Collect
    \/ TA_Done
    \/ \E l \in Logins : I_Lookup(l)
    \/ I_Process
    \/ I_Check
    \/ CL_Start
    \/ CL_Next
    \/ CL_Examine
    \/ CL_Del
    \/ S_Stop
    \/ S_Put
    \/ S_Join
    \/ \E l \in Logins : AM_AddAccount(l)
    \/ \E l \in Logins : MW_DeleteAccount(l)
    \/ MW_DeleteTerminate
    \/ MW_DeleteDone
    \/ \E old, new \in Logins : AM_UpdateAccount(old, new)
    \/ \E d \in DelayInputs : OS_Accept(d)
    \/ CE_Start
    \/ CE_Call
    \/ CE_Collect
    \/ CE_Counted
    \/ CE_Resume
    \/ \E r \in {"Yes", "No", "Cancel"} : CE_Reply(r)
    \/ CE_Shutdown
    \/ CE_Accept
    \/ MN_Resume
    \/ MN_Exit
    \/ \E t \in pending, p \in PIDs : E_SpawnAppear(t, p)
    \/ \E p \in PIDs, t \in {ExtTag, OtherTag} : E_ExtStart(p, t)
    \/ \E p \in PIDs : E_Exit(p)

Spec == Init /\ [][Next]_vars

\* The queue and its worker: requests are queued, the delay is set and the
\* launcher is shut down while the worker launches; clients start and exit.
QueueInputs ==
    { << "A", TRUE, "ok" >>, << "B", TRUE, "raise" >>, << "B", FALSE, "none" >> }

NextQueue ==
    \/ \E g \in Launchers : WorkerStep(g)
    \/ \E r \in QueueInputs : C_QueueLaunch(r[1], r[2], r[3])
    \/ C_SetLaunchDelay(MaxLaunchDelay + 1)
    \/ S_Stop
    \/ S_Put
    \/ S_Join
    \/ C_Return
    \/ \E t \in pending, p \in PIDs : E_SpawnAppear(t, p)
    \/ \E p \in PIDs : E_Exit(p)

SpecQueue == Init /\ [][NextQueue]_vars

\* Launches by both threads: launch_account calls for one login by the
\* calling thread while the worker launches a queued request for another;
\* clients and other processes start and exit.  With a single queued
\* request the queue is empty when the worker tests it after the launch,
\* so the worker never sleeps here.
NextLaunch ==
    \/ \E c \in Ctx, ok \in BOOLEAN : L_Begin(c, ok)
    \/ \E c \in Ctx, ok \in BOOLEAN : L_Spawn(c, ok)
    \/ \E c \in Ctx, ok \in BOOLEAN : L_Settle(c, ok)
    \/ \E c \in Ctx : L_Lock(c)
    \/ \E c \in Ctx : L_Record(c)
    \/ \E g \in Launchers : W_Loop(g)
    \/ \E g \in Launchers : W_GetTimeout(g)
    \/ \E g \in Launchers : W_Get(g)
    \/ \E g \in Launchers : W_Callback(g)
    \/ \E g \in Launchers : W_LaunchRaised(g)
    \/ \E g \in Launchers : W_Check(g)
    \/ requests = << >> /\ C_QueueLaunch("B", TRUE, "none")
    \/ \E b \in BOOLEAN : C_LaunchAccount("A", b)
    \/ C_LaunchReturn
    \/ \E t \in pending, p \in PIDs : E_SpawnAppear(t, p)
    \/ \E p \in PIDs, t \in {ExtTag, OtherTag} : E_ExtStart(p, t)
    \/ \E p \in PIDs : E_Exit(p)

SpecLaunch == Init /\ [][NextLaunch]_vars

\* The map and its users: the calling thread terminates, queries and cleans
\* up while the worker launches queued requests and stores their pids;
\* clients start and exit.
NextTracker ==
    \/ \E g \in Launchers : WorkerOkStep(g)
    \/ \E l \in Logins : C_QueueLaunch(l, TRUE, "none")
    \/ \E l \in Logins : T_Lookup(l)
    \/ \E d \in BOOLEAN : T_Signal(d)
    \/ \E k, d \in BOOLEAN : T_Wait(k, d)
    \/ T_Del
    \/ \E l \in Logins : I_Lookup(l)
    \/ I_Process
    \/ I_Check
    \/ CL_Start
    \/ CL_Next
    \/ CL_Examine
    \/ CL_Del
    \/ C_Return
    \/ \E t \in pending, p \in PIDs : E_SpawnAppear(t, p)
    \/ \E p \in PIDs : E_Exit(p)

SpecTracker == Init /\ [][NextTracker]_vars

\* Terminating: the calling thread terminates one tracked login or all of
\* them while the worker launches queued requests and stores their pids;
\* clients start and exit.
NextTerminate ==
    \/ \E g \in Launchers : WorkerOkStep(g)
    \/ \E l \in Logins : C_QueueLaunch(l, TRUE, "none")
    \/ \E l \in Logins : T_Lookup(l)
    \/ \E d \in BOOLEAN : T_Signal(d)
    \/ \E k, d \in BOOLEAN : T_Wait(k, d)
    \/ T_Del
    \/ TA_Start
    \/ TA_Call
    \/ TA_Collect
    \/ TA_Done
    \/ C_Return
    \/ \E t \in pending, p \in PIDs : E_SpawnAppear(t, p)
    \/ \E p \in PIDs : E_Exit(p)

SpecTerminate == Init /\ [][NextTerminate]_vars

\* The delay: set_launch_delay is called with values below, inside and above
\* the range while the worker launches queued requests and sleeps between them.
NextDelay ==
    \/ \E g \in Launchers : WorkerOkStep(g)
    \/ C_QueueLaunch("A", TRUE, "none")
    \/ \E d \in DelayInputs : C_SetLaunchDelay(d)
    \/ \E t \in pending, p \in PIDs : E_SpawnAppear(t, p)

SpecDelay == Init /\ [][NextDelay]_vars

\* Closing the window: requests are queued and launched, accounts are added
\* and deleted, clients exit, the cleanup timer fires, and the window is
\* closed.  Every terminate() takes effect within the wait or the kill()
\* that follows does, so that each termination succeeds.  Clients whose
\* batch file was started still come up after the application has exited.
NextClose ==
    \/ \E g \in Launchers : WorkerOkStep(g)
    \/ \E l \in Logins : C_QueueLaunch(l, TRUE, "none")
    \/ \E l \in Logins : AM_AddAccount(l)
    \/ \E l \in Logins : MW_DeleteAccount(l)
    \/ MW_DeleteTerminate
    \/ MW_DeleteDone
    \/ \E old, new \in Logins : AM_UpdateAccount(old, new)
    \/ CL_Start
    \/ CL_Next
    \/ CL_Examine
    \/ CL_Del
    \/ C_Return
    \/ CE_Resume
    \/ CE_Start
    \/ CE_Call
    \/ I_Process
    \/ I_Check
    \/ CE_Collect
    \/ CE_Counted
    \/ \E r \in {"Yes", "No", "Cancel"} : CE_Reply(r)
    \/ TA_Call
    \/ T_Signal(FALSE)
    \/ T_Wait(TRUE, FALSE)
    \/ T_Del
    \/ TA_Collect
    \/ TA_Done
    \/ CE_Shutdown
    \/ S_Put
    \/ S_Join
    \/ CE_Accept
    \/ MN_Resume
    \/ MN_Exit
    \/ \E t \in pending, p \in PIDs : E_SpawnAppear(t, p)
    \/ \E p \in PIDs : E_Exit(p)

SpecClose == Init /\ [][NextClose]_vars

\* Saving settings: requests are queued to the window's GameLauncher and
\* launched by its worker; at some moment the settings dialog is accepted,
\* and requests queued from then on go to the new GameLauncher.
NextSettings ==
    \/ \E g \in Launchers : WorkerOkStep(g)
    \/ \E l \in Logins : C_QueueLaunch(l, TRUE, "none")
    \/ OS_Accept(MaxLaunchDelay + 1)
    \/ \E t \in pending, p \in PIDs : E_SpawnAppear(t, p)
    \/ \E p \in PIDs : E_Exit(p)

SpecSettings == Init /\ [][NextSettings]_vars

\* The queue and its worker with the scheduling the threads get: the worker
\* thread keeps running (every launch, callback, get and sleep returns), and
\* a shutdown() that was entered goes on to put the sentinel and to join.
ShutdownStep == S_Put \/ S_Join

\* requests for one login are queued and the launcher is shut down at any
\* moment of the worker's loop
NextStop ==
    \/ \E g \in Launchers : WorkerStep(g)
    \/ C_QueueLaunch("A", TRUE, "ok")
    \/ S_Stop
    \/ S_Put
    \/ S_Join
    \/ C_Return
    \/ \E t \in pending, p \in PIDs : E_SpawnAppear(t, p)
    \/ \E p \in PIDs : E_Exit(p)

SpecStop ==
    /\ Init
    /\ [][NextStop]_vars
    /\ \A g \in Launchers : WF_vars(WorkerStep(g))
    /\ WF_vars(ShutdownStep)

\* Failing requests: requests whose callback raises or whose launch raises
\* are queued together with others; the launcher is not shut down and the
\* worker thread keeps being scheduled.
RaiseInputs == { << "A", TRUE, "raise" >>, << "B", TRUE, "ok" >> }

NextRaise ==
    \/ \E g \in Launchers : WorkerStep(g)
    \/ \E r \in RaiseInputs : C_QueueLaunch(r[1], r[2], r[3])
    \/ \E t \in pending, p \in PIDs : E_SpawnAppear(t, p)
    \/ \E p \in PIDs : E_Exit(p)

SpecRaise ==
    /\ Init
    /\ [][NextRaise]_vars
    /\ \A g \in Launchers : WF_vars(WorkerStep(g))
\* ======================================================================
\* Properties of the queue and its worker (checked under SpecQueue)
\* ======================================================================
\* the GameLauncher the window refers to, and its worker thread
cur == game_launcher
wk == Worker(game_launcher)

QueuedIds == [i \in 1 .. Len(requests) |-> i]
CallsFor(id) == { k \in 1 .. Len(cbLog) : cbLog[k][1] = id }
InWindow == wpc[cur] = "launch" /\ att[wk].pc \in {"spawn", "settle"}
NewInWindow == GetRunningProcesses(alive, origin) \ att[wk].before
TakesRequest == Len(executed') = Len(executed) + 1

\* C1: as long as shutdown() has not been called, the requests the worker
\* has executed followed by those still queued are exactly the requests
\* passed to queue_launch, each once and in the order they were queued; the
\* callbacks that were invoked belong to executed requests and were invoked
\* in the order the requests were queued.
C1_QueueOrder ==
    ~stop_launcher[cur] =>
        /\ executed \o launch_queue[cur] = QueuedIds
        /\ \A i \in 1 .. Len(cbLog) :
              \E k \in 1 .. Len(executed) : executed[k] = cbLog[i][1]
        /\ \A i, j \in 1 .. Len(cbLog) : i < j => cbLog[i][1] < cbLog[j][1]

C1_Witness ==
    /\ ~stop_launcher[cur]
    /\ Len(requests) = 2
    /\ executed = << 1, 2 >>
    /\ Len(cbLog) = 2
    /\ launch_queue[cur] = << >>
    /\ wpc[cur] = "get"

\* C2 as stated: at most one queued launch is between its two snapshots, and
\* no process counted as new in the window of a queued launch was spawned by
\* another queued launch.
C2_Original ==
    /\ Cardinality(window) <= 1
    /\ InWindow =>
          \A p \in NewInWindow :
             \A j \in 1 .. Len(requests) :
                origin[p] = ReqTag(j) => j = wreq[cur]

\* C2 amended: at most one queued launch is between its two snapshots at any
\* time; a process that is new in the window of a queued launch and was
\* spawned by another queued launch was spawned by an earlier one, whose own
\* window was closed before this one opened (its client came up late).
C2_NoOverlap ==
    /\ Cardinality(window) <= 1
    /\ InWindow =>
          /\ window = {wreq[cur]}
          /\ \A p \in NewInWindow :
                \A j \in 1 .. Len(requests) :
                   origin[p] = ReqTag(j) /\ j # wreq[cur] =>
                      /\ j \notin window
                      /\ \E a, b \in 1 .. Len(executed) :
                            a < b /\ executed[a] = j /\ executed[b] = wreq[cur]

C2_Witness ==
    /\ InWindow
    /\ wreq[cur] = 2
    /\ att[wk].pc = "settle"
    /\ \E p \in NewInWindow : origin[p] = ReqTag(2)

\* C3: a sleep of the worker begins with the launch_delay then in force, and
\* the worker never takes a request, whenever it was queued, without having
\* slept since the launch of the previous request ended (by returning or by
\* raising, with its callback returning or raising).
C3_DelayBetween ==
    [][ /\ (wpc[cur] # "sleep" /\ wpc'[cur] = "sleep") => sleepLen'[cur] = launch_delay[cur]
        /\ (TakesRequest /\ Len(executed) > 0) => gapSlept[cur] ]_vars

\* C4: when the worker has executed a request and no launch request remains
\* queued, it does not sleep: it goes back to waiting on the queue.
C4_NoSleepAfterLast ==
    [][ ( /\ wpc[cur] = "check"
          /\ wpc'[cur] # "check"
          /\ \A i \in 1 .. Len(launch_queue[cur]) : launch_queue[cur][i] = Sentinel )
        => wpc'[cur] = "loop" ]_vars

\* C10: every request the worker has finished with, and that was queued with
\* a callback, had its callback invoked exactly once.
C10_CallbackOnce ==
    \A k \in 1 .. Len(executed) :
       LET id == executed[k]
       IN (requests[id].cb # "none" /\ ~(wpc[cur] = "launch" /\ wreq[cur] = id))
             => Cardinality(CallsFor(id)) = 1

\* ======================================================================
\* Properties of a launch attempt (checked under SpecLaunch)
\* ======================================================================
Ends(c) == att[c].pc \notin {"done", "raised"} /\ att'[c].pc \in {"done", "raised"}
Records(c) == att[c].pc = "locked" /\ att'[c].pc = "done"
FailKinds == {"TargetNotFound", "SpawnFailed", "ProcessNotDetected"}

\* C5: the step that ends a launch attempt either returns a pid p that this
\* attempt has stored, so that process_map[login] = p right after it
\* (Attached), or returns no pid and the attempt has stored nothing (Failed).
C5_TwoOutcomes ==
    [][ \A c \in Ctx :
          Ends(c) =>
             \/ /\ att'[c].pc = "done"
                /\ att'[c].ret \in PIDs
                /\ att'[c].wrote
                /\ process_map'[cur][att'[c].login] = att'[c].ret
             \/ /\ att'[c].ret = NoPid
                /\ ~att'[c].wrote
                /\ process_map'[cur] = process_map[cur] ]_vars

C5_Witness ==
    /\ att[Caller].pc = "done"
    /\ att[Caller].ret \in PIDs
    /\ process_map[cur][att[Caller].login] = att[Caller].ret
    /\ att[wk].pc = "done"
    /\ att[wk].ret = NoPid
    /\ att[wk].kind = "ProcessNotDetected"

\* C6: the step that stores the pid of a successful launch sets
\* process_map[login] to that pid whatever was stored for login before,
\* changes no other entry, and ends no process; no step of a launch attempt
\* ends a process.
C6_LastWriteWins ==
    [][ /\ \A c \in Ctx :
              Records(c) =>
                 /\ process_map'[cur] = [process_map[cur] EXCEPT ![att[c].login] = att[c].ret]
                 /\ alive' = alive
        /\ att' # att => alive' = alive ]_vars

\* a second launch of login A found pid 2 while A was tracked with pid 1,
\* which is still running
C6_Witness ==
    /\ att[Caller].pc = "done"
    /\ att[Caller].login = "A"
    /\ att[Caller].prev = 1
    /\ att[Caller].ret = 2
    /\ process_map[cur]["A"] = 2
    /\ 1 \in alive

\* C9: two launch attempts that failed for different reasons report
\* different results.
C9_DistinctFailures ==
    \A c1, c2 \in Ctx :
       ( /\ att[c1].pc = "done" /\ att[c1].kind \in FailKinds
         /\ att[c2].pc = "done" /\ att[c2].kind \in FailKinds
         /\ att[c1].kind # att[c2].kind )
       => att[c1].ret # att[c2].ret

\* ======================================================================
\* Properties of the map and its users (checked under SpecTracker)
\* ======================================================================
CleanupEnds == cpc = "cleanup_del" /\ cpc' = "return"
DeadIn(map, running) == { l \in Keys(map) : map[l] \notin running }
WithoutDead(map, running) ==
    [l \in Logins |-> IF l \in DeadIn(map, running) THEN NoPid ELSE map[l]]

\* C7: a call of cleanup_dead_processes during which neither the map nor the
\* process table was changed by anyone else returns normally and leaves the
\* map it found minus exactly the entries whose pid was not running; when it
\* directly follows such a call, with no change in between, it removes
\* nothing.
C7_CleanupExact ==
    [][ (CleanupEnds /\ ~cop.dirty) =>
           /\ cres'.val = "none"
           /\ process_map'[cur] = WithoutDead(cop.map0, cop.alive0)
           /\ cop.second => process_map'[cur] = cop.map0 ]_vars

\* a call found A's pid gone and B's pid running: A was removed, B kept
C7_Witness ==
    /\ cpc = "return"
    /\ cres = [op |-> "cleanup_dead_processes", val |-> "none"]
    /\ ~cop.dirty
    /\ cop.map0["A"] # NoPid
    /\ cop.map0["A"] \notin cop.alive0
    /\ cop.map0["B"] \in cop.alive0
    /\ process_map[cur]["A"] = NoPid
    /\ process_map[cur]["B"] = cop.map0["B"]

\* a step of the calling thread that reads or changes the map
CallerAccess ==
    \/ /\ cpc = "idle"
       /\ cop'.op \in {"terminate_account", "is_account_running",
                       "cleanup_dead_processes"}
    \/ /\ cpc \in {"term_signal", "running_check"}
       /\ cpc' # cpc
       /\ process_map'[cur] # process_map[cur]
    \/ cpc \in {"term_del", "cleanup_iter"} /\ cpc' # cpc
    \/ cpc = "cleanup_del" /\ cop'.dead # cop.dead

\* C8: every step that reads or changes the map is taken by a thread that
\* holds launch_lock.
C8_AllUnderLock ==
    [][ /\ CallerAccess => launch_lock[cur] = Caller
        /\ \A c \in Ctx : Records(c) => launch_lock[LauncherOf(c)] = c ]_vars


\* ======================================================================
\* Properties of shutdown (checked under SpecQueue and SpecStop)
\* ======================================================================

\* C11: once shutdown() has set stop_launcher, the worker takes no request
\* from the queue to launch it.
C11_NoLaunchAfterStop ==
    [][ TakesRequest => ~stop_launcher[cur] ]_vars

\* a shutdown() that has reached join returns whether or not the worker has
\* exited
JoinBounded == cpc = "shutdown_join" => ENABLED S_Join

\* C12: after shutdown() has set stop_launcher the worker thread eventually
\* exits, wherever it was (waiting on the empty queue, launching, sleeping);
\* and shutdown() at its join can always return, also while the worker is
\* still running.
C12_WorkerExits ==
    /\ stop_launcher[cur] ~> (wpc[cur] = "exited")
    /\ []JoinBounded

\* shutdown() has returned after its join timed out: the worker, which was
\* launching when the stop flag was set, is still running
C12_Witness ==
    /\ cpc = "return"
    /\ cres = [op |-> "shutdown", val |-> "timeout"]
    /\ wpc[cur] \in {"launch", "sleep"}

\* ======================================================================
\* Properties of terminate_account and terminate_all (checked under
\* SpecTerminate)
\* ======================================================================
ReturnsFromTerminate(val) ==
    /\ cpc \in {"term_signal", "term_wait", "term_del"}
    /\ cpc' = "return"
    /\ cres'.op = "terminate_account"
    /\ cres'.val = val
TerminateStep == cpc \in {"term_signal", "term_wait", "term_del"} /\ cpc' # cpc

\* C13: when terminate_account returns True, the process it was called for
\* is not running.
C13_TrueMeansGone ==
    [][ ReturnsFromTerminate("True") => cop.pid \notin alive' ]_vars

\* C14: a step of terminate_account on a tracked login never changes the
\* mapping of another login; the call has removed the login's mapping when
\* it returns True, and has left the map as it was when it returns False.
C14_RemovesIffTrue ==
    [][ TerminateStep =>
          /\ \A l \in Logins \ {cop.login} : process_map'[cur][l] = process_map[cur][l]
          /\ cpc' # "return" => process_map'[cur] = process_map[cur]
          /\ ReturnsFromTerminate("True") => process_map'[cur][cop.login] = NoPid
          /\ ReturnsFromTerminate("False") =>
                /\ process_map'[cur] = process_map[cur]
                /\ process_map'[cur][cop.login] # NoPid ]_vars

\* terminating A's process was refused: False, A is still mapped to that
\* pid, and B's mapping is there as well
C14_Witness ==
    /\ cpc = "return"
    /\ cres = [op |-> "terminate_account", val |-> "False"]
    /\ cop.login = "A"
    /\ cop.pid # NoPid
    /\ process_map[cur]["A"] = cop.pid
    /\ process_map[cur]["B"] # NoPid

\* C15: terminate_account(login) for a login without an entry returns False
\* at once: it does not get to terminate() or kill(), no process ends and the
\* map is unchanged.
C15_UntrackedNoEffect ==
    [][ ( /\ cpc = "idle"
          /\ cop'.op = "terminate_account"
          /\ process_map[cur][cop'.login] = NoPid )
        => /\ cpc' = "return"
           /\ cres' = [op |-> "terminate_account", val |-> "False"]
           /\ process_map'[cur] = process_map[cur]
           /\ alive' = alive ]_vars

\* terminate_account("A") returned False while only B is tracked and running
C15_Witness ==
    /\ cpc = "return"
    /\ cres = [op |-> "terminate_account", val |-> "False"]
    /\ cop.outer = "none"
    /\ cop.login = "A"
    /\ cop.pid = NoPid
    /\ process_map[cur]["A"] = NoPid
    /\ process_map[cur]["B"] \in alive

\* C16 as stated: when terminate_all returns, terminate_account has been
\* called for every login that was tracked when terminate_all was called,
\* whether or not earlier ones failed, and the count returned is the number
\* of calls that returned True; when all of them returned True the count is
\* the number of logins that were tracked and the map is empty.
C16_Original ==
    [][ (cpc = "all_iter" /\ cpc' = "return") =>
          /\ cop.tried = cop.all0
          /\ cop.okset \subseteq cop.all0
          /\ cop.count = Cardinality(cop.okset)
          /\ cop.okset = cop.all0 =>
                /\ cop.count = Cardinality(cop.all0)
                /\ process_map'[cur] = EmptyMap ]_vars

\* C16 amended: as above, but when all terminations succeeded the map holds
\* no entry other than those a launch stored while terminate_all was
\* running; with no such store it is empty.
C16_TerminateAll ==
    [][ (cpc = "all_iter" /\ cpc' = "return") =>
          /\ cop.tried = cop.all0
          /\ cop.okset \subseteq cop.all0
          /\ cop.count = Cardinality(cop.okset)
          /\ cop.okset = cop.all0 =>
                /\ cop.count = Cardinality(cop.all0)
                /\ Keys(process_map'[cur]) \subseteq cop.stored ]_vars

\* terminate_all found both logins tracked and returned 2; the map is empty
C16_Witness ==
    /\ cpc = "return"
    /\ cres.op = "terminate_all"
    /\ cop.all0 = Logins
    /\ cop.count = 2
    /\ process_map[cur] = EmptyMap

\* ======================================================================
\* Properties of the snapshots of a launch (checked under SpecLaunch)
\* ======================================================================
Matching == GetRunningProcesses(alive, origin)
AttStep(c) == att'[c] # att[c]
Finds(c) == att[c].pc = "settle" /\ att'[c].pc = "record"

\* C17: the step of a launch whose batch file does not exist ends the
\* attempt without a pid: no snapshot is stored, nothing is spawned, no
\* process starts and the map is unchanged.
C17_MissingBatch ==
    [][ \A c \in Ctx :
          (att[c].pc = "start" /\ ~att[c].batch /\ AttStep(c)) =>
             /\ att'[c] = [att[c] EXCEPT !.pc = "done", !.kind = "TargetNotFound"]
             /\ att'[c].ret = NoPid
             /\ att'[c].before = {}
             /\ pending' = pending
             /\ window' = window
             /\ alive' = alive
             /\ process_map'[cur] = process_map[cur] ]_vars

\* launch_account with a missing batch file has ended while a client is
\* running: nothing was snapshotted, spawned or stored
C17_Witness ==
    /\ att[Caller].pc = "done"
    /\ att[Caller].kind = "TargetNotFound"
    /\ att[Caller].before = {}
    /\ Matching # {}
    /\ pending \cap DirectTags = {}
    /\ process_map[cur]["A"] = NoPid

\* C18: no step of a launch before its store changes the map, and when the
\* processes running at the after snapshot were all in the before snapshot
\* the launch ends there without a pid and without having stored anything:
\* the map, an earlier mapping of the same login included, is as it was.
C18_NothingNew ==
    [][ \A c \in Ctx :
          /\ (att[c].pc \in {"start", "spawn", "settle"} /\ AttStep(c))
                => process_map'[cur] = process_map[cur]
          /\ (att[c].pc = "settle" /\ AttStep(c) /\ Matching \subseteq att[c].before)
                => /\ att'[c].pc = "done"
                   /\ att'[c].ret = NoPid
                   /\ ~att'[c].wrote ]_vars

\* a relaunch of A found nothing new: A keeps the pid of its earlier launch
C18_Witness ==
    /\ att[Caller].pc = "done"
    /\ att[Caller].kind = "ProcessNotDetected"
    /\ att[Caller].login = "A"
    /\ att[Caller].before # {}
    /\ process_map[cur]["A"] \in att[Caller].before

\* C19: the before snapshot is the set of matching processes running when it
\* is taken; the pid a launch finds is running as a matching process at the
\* after snapshot and is not in the before snapshot of that launch; and it
\* is that pid which the launch stores and returns.
C19_PidIsNew ==
    [][ \A c \in Ctx :
          /\ (att[c].pc = "start" /\ att'[c].pc = "spawn")
                => att'[c].before = Matching
          /\ Finds(c) =>
                /\ att'[c].ret \in Matching
                /\ att'[c].ret \notin att[c].before
                /\ att'[c].before = att[c].before
          /\ Records(c) =>
                /\ process_map'[cur][att[c].login] = att[c].ret
                /\ att'[c].ret = att[c].ret ]_vars

\* pid 1 was running at the before snapshot; the launch stored pid 2
C19_Witness ==
    /\ att[Caller].pc = "done"
    /\ att[Caller].wrote
    /\ att[Caller].before = {1}
    /\ att[Caller].ret = 2
    /\ process_map[cur][att[Caller].login] = 2

\* C20 as stated: while a launch_account call is running, the pid a queued
\* launch finds was not spawned by launch_account.
C20_Original ==
    [][ (Finds(wk) /\ cpc = "launch") => origin[att'[wk].ret] # DirectClient ]_vars

\* C20 amended: the race is on both sides.  A launch of either kind may find
\* a pid that a launch of the other kind spawned, but only one that came up
\* between its own two snapshots: it is running at the after snapshot and
\* was not in the before snapshot.
C20_RaceBothSides ==
    [][ \A c \in Ctx :
          (Finds(c) /\ origin[att'[c].ret] \notin {Tag(c), ExtTag}) =>
             /\ att'[c].ret \in Matching
             /\ att'[c].ret \notin att[c].before ]_vars

\* the worker has stored, for its queued login B, the pid of the client that
\* a launch_account call still under way has spawned
C20_Witness ==
    /\ att[wk].pc = "done"
    /\ att[wk].wrote
    /\ origin[att[wk].ret] = DirectClient
    /\ process_map[cur]["B"] = att[wk].ret
    /\ cpc = "launch"
    /\ att[Caller].pc = "settle"

\* ======================================================================
\* Properties of the inter-launch delay (checked under SpecDelay)
\* ======================================================================
DelayRange == (MinLaunchDelay - 4) .. (MaxLaunchDelay + 4)
Clamped(d) ==
    IF d < MinLaunchDelay THEN MinLaunchDelay
    ELSE IF d > MaxLaunchDelay THEN MaxLaunchDelay ELSE d

\* C21: launch_delay is always between 1 and 30; it is 3 or a value that
\* set_launch_delay stored, and what set_launch_delay(d) stores is d when d
\* is in the range, 1 when d is below it and 30 when d is above it.
C21_DelayInRange ==
    /\ launch_delay[cur] \in MinLaunchDelay .. MaxLaunchDelay
    /\ launch_delay[cur] \in {DefaultLaunchDelay} \cup { Clamped(d) : d \in DelayInputs }
    /\ \A d \in DelayRange : ClampDelay(d) = Clamped(d)

\* set_launch_delay was called with a value below the range
C21_Witness ==
    /\ launch_delay[cur] = MinLaunchDelay
    /\ executed # << >>

\* C22: a sleep that begins has the length launch_delay has at that moment,
\* which is the value stored by the latest set_launch_delay; the length of
\* a sleep in progress does not change, whatever is set meanwhile.
C22_DelayNotRetroactive ==
    [][ /\ (wpc[cur] # "sleep" /\ wpc'[cur] = "sleep") => sleepLen'[cur] = launch_delay[cur]
        /\ (wpc[cur] = "sleep" /\ wpc'[cur] = "sleep") => sleepLen'[cur] = sleepLen[cur]
        /\ launch_delay'[cur] # launch_delay[cur] =>
              \E d \in DelayInputs : launch_delay'[cur] = Clamped(d) ]_vars

\* the delay was changed while the worker sleeps the old one
C22_Witness ==
    /\ wpc[cur] = "sleep"
    /\ sleepLen[cur] = DefaultLaunchDelay
    /\ launch_delay[cur] = MaxLaunchDelay

\* ======================================================================
\* Cleanup while the worker stores a pid (checked under SpecTracker)
\* ======================================================================

\* C23: cleanup_dead_processes never ends by raising an exception to its
\* caller.
C23_CleanupNoError ==
    ~(cres.op = "cleanup_dead_processes" /\ cres.val = "raised")

\* ======================================================================
\* What shutdown leaves alone (checked under SpecQueue)
\* ======================================================================
ShutdownActs ==
    \/ cpc = "idle" /\ cpc' = "shutdown_put"
    \/ cpc = "shutdown_put" /\ cpc' = "shutdown_join"
    \/ cpc = "shutdown_join" /\ cpc' = "return"

\* C24: no step of shutdown() changes process_map or ends, starts or
\* signals a process: the first sets stop_launcher, the second appends the
\* sentinel to the queue, the third joins.
C24_ShutdownKeepsClients ==
    [][ ShutdownActs =>
          /\ process_map'[cur] = process_map[cur]
          /\ alive' = alive
          /\ origin' = origin
          /\ pending' = pending
          /\ launch_queue'[cur] \in {launch_queue[cur], Append(launch_queue[cur], Sentinel)}
          /\ requests' = requests ]_vars

\* shutdown() has returned and the worker has exited; the client launched
\* for A is still tracked and still running
C24_Witness ==
    /\ cpc = "return"
    /\ cres.op = "shutdown"
    /\ wpc[cur] = "exited"
    /\ process_map[cur]["A"] \in alive
    /\ origin[process_map[cur]["A"]] = ReqTag(1)

\* ======================================================================
\* Closing the window with the answer Yes (checked under SpecClose)
\* ======================================================================
LaunchedClient(p) == \E i \in 1 .. Len(requests) : origin[p] = ReqTag(i)

\* C25: when the window was closed with the answer Yes and every
\* termination succeeded, no client launched through the queue is running,
\* or still to come up, once the application has exited.
C25_NoClientLeft ==
    (closing.phase = "exited" /\ closing.yes) =>
        /\ \A p \in alive : ~LaunchedClient(p)
        /\ \A i \in 1 .. Len(requests) : ReqTag(i) \notin pending

\* ======================================================================
\* A relaunch during terminate_account (checked under SpecTerminate)
\* ======================================================================

\* C26: when terminate_account returns True and the login is by then mapped
\* to another pid than the one the call looked up and terminated, that
\* mapping is left in place.
C26_NewMappingSurvives ==
    [][ ( /\ ReturnsFromTerminate("True")
          /\ process_map[cur][cop.login] # NoPid
          /\ process_map[cur][cop.login] # cop.pid )
        => process_map'[cur][cop.login] = process_map[cur][cop.login] ]_vars

\* ======================================================================
\* The sentinel and the delay (checked under SpecQueue)
\* ======================================================================

\* C27: a worker that has finished a launch and finds only the sentinel in
\* the queue does not sleep.
C27_SentinelNoSleep ==
    [][ ( /\ wpc[cur] = "check"
          /\ launch_queue[cur] = << Sentinel >>
          /\ wpc'[cur] # wpc[cur] )
        => wpc'[cur] # "sleep" ]_vars

\* ======================================================================
\* Saving settings (checked under SpecSettings)
\* ======================================================================
Replaces == game_launcher' # game_launcher
Replaced(g) == g < game_launcher
LiveWorkers == Cardinality({ g \in Launchers : wpc[g] \notin {"none", "exited"} })
WindowMap == process_map[game_launcher]

\* C28: at most one launch worker is alive, and once the window's
\* GameLauncher has been replaced the worker of the replaced one takes no
\* request from its queue any more.
C28_OneWorker ==
    [][ /\ LiveWorkers' <= 1
        /\ \A g \in Launchers :
              (Replaced(g) /\ wpc[g] = "get") => wpc'[g] # "launch" ]_vars

\* C29: when the settings dialog is accepted, every login that the window's
\* GameLauncher maps to a running pid is mapped to the same pid by the
\* window's GameLauncher afterwards.
C29_TrackingKept ==
    [][ Replaces =>
          \A l \in Logins :
             (WindowMap[l] # NoPid /\ WindowMap[l] \in alive)
                => WindowMap'[l] = WindowMap[l] ]_vars

\* ======================================================================
\* Exceptions in the worker (checked under SpecRaise)
\* ======================================================================
Executed(i) == \E k \in 1 .. Len(executed) : executed[k] = i

\* C30: with no shutdown() the worker thread never ends, whatever a launch
\* or a callback raises; every queued request is eventually taken and
\* launched, and the requests are taken in the order they were queued.
C30_WorkerSurvives ==
    /\ [](wpc[cur] # "exited")
    /\ [](\A j, k \in 1 .. Len(executed) : j < k => executed[j] < executed[k])
    /\ \A i \in 1 .. MaxRequests : (Len(requests) >= i) ~> Executed(i)

\* the launch of request 1 raised, so no callback was called for it, and
\* request 2, queued behind it, has been launched and its callback has raised
C30_Witness ==
    /\ executed = << 1, 2 >>
    /\ requests[2].cb = "raise"
    /\ Len(cbLog) = 1
    /\ cbLog[1][1] = 2
    /\ wpc[cur] = "get"
====
